---- MODULE Spec2Model ----
(***************************************************************************)
(* Model of src/python/geometry_extractor.py: the GeometryExtractor class  *)
(* (file store, tolerant line-value reader, main / ElastoDyn / blade /     *)
(* tower / AeroDyn parsers, extract_geometry) and the entry point          *)
(* extract_openfast_geometry.                                              *)
(*                                                                         *)
(* Text is modelled character by character: a Python str is a TLA+ string, *)
(* read with Len, SubSeq and \o.  A Python value that may be None is a     *)
(* sequence of length at most one: None is <<>>, the value v is <<v>>.     *)
(* A Python float is held as an integer number of tenths (50.0 is 500);    *)
(* the literals of the input catalogues have at most one fractional digit. *)
(***************************************************************************)
EXTENDS Integers, Sequences, FiniteSets, TLC

VARIABLES
    files,      \* self.files: the dict, as the sequence of its items in insertion order
    geometry,   \* self.geometry
    stack,      \* the active calls, innermost last: one frame of locals per call
    rv,         \* the value returned by the call that returned last
    probe,      \* a direct call of one method: its arguments and its result
    phase,      \* which invocation of extract_openfast_geometry is running
    plan,       \* the files_dict given to each invocation
    history     \* the record returned by each finished invocation

vars == <<files, geometry, stack, rv, probe, phase, plan, history>>

None == <<>>
Some(v) == <<v>>

(***************************************************************************)
(* Python str methods                                                      *)
(***************************************************************************)
Ch(s, i) == SubSeq(s, i, i)

SetMin(S) == CHOOSE x \in S : \A y \in S : x <= y
SetMax(S) == CHOOSE x \in S : \A y \in S : y <= x

IsSpace(c) == c \in {" ", "\t", "\r", "\n"}

\* str.strip()
Strip(s) ==
    LET I == {i \in 1..Len(s) : ~IsSpace(Ch(s, i))}
    IN  IF I = {} THEN "" ELSE SubSeq(s, SetMin(I), SetMax(I))

\* str.strip(chars) for a one-character argument
StripChar(s, c) ==
    LET I == {i \in 1..Len(s) : Ch(s, i) # c}
    IN  IF I = {} THEN "" ELSE SubSeq(s, SetMin(I), SetMax(I))

\* str.startswith(p), str.endswith(p), p in s
StartsWith(s, p) == Len(p) <= Len(s) /\ SubSeq(s, 1, Len(p)) = p
EndsWith(s, p) == Len(p) <= Len(s) /\ SubSeq(s, Len(s) - Len(p) + 1, Len(s)) = p
Contains(s, p) == \E i \in 1..(Len(s) - Len(p) + 1) : SubSeq(s, i, i + Len(p) - 1) = p

\* the part of s before the first character that is in the set D (all of s if none)
Before(s, D) ==
    LET I == {i \in 1..Len(s) : Ch(s, i) \in D}
    IN  IF I = {} THEN s ELSE SubSeq(s, 1, SetMin(I) - 1)

\* s.split(sep) for a one-character separator: the pieces, in order
RECURSIVE SplitOn(_, _)
SplitOn(s, sep) ==
    LET I == {i \in 1..Len(s) : Ch(s, i) = sep}
    IN  IF I = {} THEN <<s>>
        ELSE <<SubSeq(s, 1, SetMin(I) - 1)>> \o SplitOn(SubSeq(s, SetMin(I) + 1, Len(s)), sep)

\* str.split(): the maximal runs of non-whitespace characters, in order
RECURSIVE Tokens(_)
Tokens(s) ==
    LET I == {i \in 1..Len(s) : ~IsSpace(Ch(s, i))}
    IN  IF I = {} THEN <<>>
        ELSE LET a == SetMin(I)
                 J == {j \in a..Len(s) : IsSpace(Ch(s, j))}
                 b == IF J = {} THEN Len(s) ELSE SetMin(J) - 1
             IN  <<SubSeq(s, a, b)>> \o Tokens(SubSeq(s, b + 1, Len(s)))

LowerLetters == "abcdefghijklmnopqrstuvwxyz"
UpperLetters == "ABCDEFGHIJKLMNOPQRSTUVWXYZ"

MapCh(c, from, to) ==
    IF \E i \in 1..Len(from) : Ch(from, i) = c
    THEN Ch(to, CHOOSE i \in 1..Len(from) : Ch(from, i) = c)
    ELSE c

\* str.upper(), str.lower()
RECURSIVE Upper(_)
Upper(s) == IF s = "" THEN "" ELSE MapCh(Ch(s, 1), LowerLetters, UpperLetters) \o Upper(SubSeq(s, 2, Len(s)))
RECURSIVE Lower(_)
Lower(s) == IF s = "" THEN "" ELSE MapCh(Ch(s, 1), UpperLetters, LowerLetters) \o Lower(SubSeq(s, 2, Len(s)))

\* os.path.basename(path): what follows the last "/"
Basename(path) ==
    LET I == {i \in 1..Len(path) : Ch(path, i) = "/"}
    IN  IF I = {} THEN path ELSE SubSeq(path, SetMax(I) + 1, Len(path))

(***************************************************************************)
(* Python int(s) and float(s) on the literals of the modelled alphabet:    *)
(* an optional sign, decimal digits, and for float at most one "." with    *)
(* at most one digit after it.  A failed conversion (ValueError) is None.  *)
(***************************************************************************)
DigitChars == "0123456789"
IsDigit(c) == \E i \in 1..Len(DigitChars) : Ch(DigitChars, i) = c
DigitVal(c) == (CHOOSE i \in 1..Len(DigitChars) : Ch(DigitChars, i) = c) - 1
AllDigits(s) == \A i \in 1..Len(s) : IsDigit(Ch(s, i))

RECURSIVE NatVal(_)
NatVal(s) == IF s = "" THEN 0 ELSE NatVal(SubSeq(s, 1, Len(s) - 1)) * 10 + DigitVal(Ch(s, Len(s)))

Unsigned(s) == IF s # "" /\ Ch(s, 1) \in {"+", "-"} THEN SubSeq(s, 2, Len(s)) ELSE s
Signed(s, n) == IF s # "" /\ Ch(s, 1) = "-" THEN 0 - n ELSE n

ParseInt(s) ==
    LET b == Unsigned(s)
    IN  IF b # "" /\ AllDigits(b) THEN Some(Signed(s, NatVal(b))) ELSE None

ParseFloat(s) ==
    LET b  == Unsigned(s)
        ip == Before(b, {"."})
        fp == IF Contains(b, ".") THEN SubSeq(b, Len(ip) + 2, Len(b)) ELSE ""
    IN  IF /\ AllDigits(ip) /\ AllDigits(fp)
           /\ Len(ip) + Len(fp) > 0
           /\ Len(fp) <= 1
        THEN Some(Signed(s, NatVal(ip) * 10 + NatVal(fp)))
        ELSE None

\* str(x) of a non-negative float held in tenths, and of an int
FmtFloat(t) == ToString(t \div 10) \o "." \o ToString(t % 10)

(***************************************************************************)
(* GeometryExtractor: the result record and the file store                 *)
(***************************************************************************)
EmptyDict == [k \in {} |-> None]
Put(d, k, v) == [x \in (DOMAIN d) \cup {k} |-> IF x = k THEN v ELSE d[x]]
Has(d, k) == k \in DOMAIN d

\* the dict self.geometry built by __init__
NewGeometry ==
    [config |-> EmptyDict, blades |-> EmptyDict, tower |-> EmptyDict, hub |-> EmptyDict,
     errors |-> <<>>, warnings |-> <<>>, filesRead |-> <<>>]

\* GeometryExtractorInit with the geometry dict shared between instances
GeometryExtractorShared(prior) == [geometry |-> prior.geometry, files |-> <<>>]

\* extractor = GeometryExtractor(): the attributes of the new instance.  prior
\* is the instance of the invocation before, which __init__ never reads.
GeometryExtractorInit(prior) == [geometry |-> NewGeometry, files |-> <<>>]

Keys(fs) == {fs[i].name : i \in 1..Len(fs)}
Lookup(fs, k) == fs[CHOOSE i \in 1..Len(fs) : fs[i].name = k].content

\* self.files[filename] = content: a new key goes last, a known key keeps its place
add_file(fs, filename, content) ==
    IF filename \in Keys(fs)
    THEN [i \in 1..Len(fs) |-> IF fs[i].name = filename
                               THEN [name |-> filename, content |-> content] ELSE fs[i]]
    ELSE Append(fs, [name |-> filename, content |-> content])

RECURSIVE add_files(_, _)
add_files(fs, items) ==
    IF items = <<>> THEN fs
    ELSE add_files(add_file(fs, items[1].name, items[1].content), Tail(items))

\* get_file with the last stored name of the same basename taken, not the first
get_file_last_match(fs, filepath) ==
    LET basename == Basename(filepath)
        I == {i \in 1..Len(fs) : Basename(fs[i].name) = basename}
    IN  IF filepath \in Keys(fs) THEN Some(Lookup(fs, filepath))
        ELSE IF basename \in Keys(fs) THEN Some(Lookup(fs, basename))
        ELSE IF I # {} THEN Some(fs[SetMax(I)].content)
        ELSE None

\* self.get_file(filepath): the content, or None
get_file(fs, filepath) ==
    LET basename == Basename(filepath)
        I == {i \in 1..Len(fs) : Basename(fs[i].name) = basename}
    IN  IF filepath \in Keys(fs) THEN Some(Lookup(fs, filepath))
        ELSE IF basename \in Keys(fs) THEN Some(Lookup(fs, basename))
        ELSE IF I # {} THEN Some(fs[SetMin(I)].content)
        ELSE None

\* ValuePart with the line cut at its first "!" only
ValuePartKeepingMinus(line) == Strip(Before(Strip(line), {"!"}))

\* the line up to its first "!" or "-", stripped: re.split(r'[!\-]', line.strip())[0].strip()
ValuePart(line) == Strip(Before(Strip(line), {"!", "-"}))

\* value.strip('"').strip("'")
Unquote(value) == StripChar(StripChar(value, "\""), "'")

\* read_value with the last token of the value part taken, not the first
read_value_last_token(line, value_type) ==
    LET part0 == ValuePart(line)
    IN  IF part0 = "" THEN None
        ELSE LET value == Unquote(Tokens(part0)[Len(Tokens(part0))])
             IN  CASE value_type = "float" -> ParseFloat(value)
                   [] value_type = "int"   -> ParseInt(value)
                   [] value_type = "bool"  -> Some(Lower(value) \in {"true", "t", "yes", "1"})
                   [] OTHER                -> Some(value)

\* self.read_value(line, value_type); any exception gives None
read_value(line, value_type) ==
    LET part0 == ValuePart(line)
    IN  IF part0 = "" THEN None
        ELSE LET value == Unquote(Tokens(part0)[1])
             IN  CASE value_type = "float" -> ParseFloat(value)
                   [] value_type = "int"   -> ParseInt(value)
                   [] value_type = "bool"  -> Some(Lower(value) \in {"true", "t", "yes", "1"})
                   [] OTHER                -> Some(value)

\* Python truth of a value that may be None: not None, and not "" / 0 / 0.0
TruthyStr(v) == v # None /\ v[1] # ""
TruthyNum(v) == v # None /\ v[1] # 0

(***************************************************************************)
(* The two distributed-property table parsers                              *)
(***************************************************************************)
\* a line the table loops look at: not blank, not a "!" or "---" line
IsRow(line) ==
    /\ Strip(line) # ""
    /\ ~StartsWith(Strip(line), "!")
    /\ ~StartsWith(Strip(line), "---")

\* if '!' in line: line = line.split('!')[0]; parts = line.split()
RowParts(line) == Tokens(IF Contains(line, "!") THEN SplitOn(line, "!")[1] ELSE line)

\* the station of a blade row, or None (fewer than 3 parts, or a ValueError)
BladeStation(parts) ==
    IF Len(parts) >= 3
    THEN LET a == ParseFloat(parts[1])
             b == ParseFloat(parts[2])
             c == ParseFloat(parts[3])
         IN  IF a # None /\ b # None /\ c # None
             THEN Some([spanFraction |-> a[1], pitchAxis |-> b[1], twist |-> c[1]])
             ELSE None
    ELSE None

\* BladeLoop with the tower table's policy: the first bad row ends the table
RECURSIVE BladeLoopStopping(_, _, _, _)
BladeLoopStopping(lines, i, in_table, stations) ==
    IF i > Len(lines) THEN stations
    ELSE LET line == lines[i]
         IN  IF Contains(Upper(line), "BLFRACT")
             THEN BladeLoopStopping(lines, i + 1, TRUE, stations)
             ELSE IF in_table /\ IsRow(line)
             THEN LET st == BladeStation(RowParts(line))
                  IN  IF st # None
                      THEN BladeLoopStopping(lines, i + 1, in_table, Append(stations, st[1]))
                      ELSE stations
             ELSE BladeLoopStopping(lines, i + 1, in_table, stations)

\* the loop of parse_blade_file from line i on: the stations at its end
RECURSIVE BladeLoop(_, _, _, _)
BladeLoop(lines, i, in_table, stations) ==
    IF i > Len(lines) THEN stations
    ELSE LET line == lines[i]
         IN  IF Contains(Upper(line), "BLFRACT")
             THEN BladeLoop(lines, i + 1, TRUE, stations)
             ELSE IF in_table /\ IsRow(line)
             THEN LET st == BladeStation(RowParts(line))
                  IN  BladeLoop(lines, i + 1, in_table,
                                IF st # None THEN Append(stations, st[1]) ELSE stations)
             ELSE BladeLoop(lines, i + 1, in_table, stations)

FmtBladeCount(n) == "Parsed " \o ToString(n) \o " blade stations"
FmtTowerCount(n) == "Parsed " \o ToString(n) \o " tower stations"

\* parse_blade_file without the "if stations:" guard
parse_blade_file_unguarded(g, content) ==
    LET stations == BladeLoop(SplitOn(content, "\n"), 1, FALSE, <<>>)
    IN  [g EXCEPT !.blades = Put(@, "stations", stations),
                  !.filesRead = Append(@, "Blade properties"),
                  !.warnings = Append(@, FmtBladeCount(Len(stations)))]

\* self.parse_blade_file(content): the geometry it leaves
parse_blade_file(g, content) ==
    LET stations == BladeLoop(SplitOn(content, "\n"), 1, FALSE, <<>>)
    IN  IF stations # <<>>
        THEN [g EXCEPT !.blades = Put(@, "stations", stations),
                       !.filesRead = Append(@, "Blade properties"),
                       !.warnings = Append(@, FmtBladeCount(Len(stations)))]
        ELSE g

\* InUnitRange without the upper limit
InUnitRangeNoUpperLimit(height_frac) == 0 <= height_frac

\* 0 <= height_frac <= 1, in tenths
InUnitRange(height_frac) == 0 <= height_frac /\ height_frac <= 10

\* TowerLoop with the blade table's policy: a bad row is skipped
RECURSIVE TowerLoopSkipping(_, _, _, _)
TowerLoopSkipping(lines, i, in_table, stations) ==
    IF i > Len(lines) THEN stations
    ELSE LET line == lines[i]
         IN  IF in_table /\ StartsWith(Strip(line), "---") THEN stations
             ELSE IF Contains(Upper(line), "HTFRACT")
             THEN TowerLoopSkipping(lines, i + 1, TRUE, stations)
             ELSE IF in_table /\ IsRow(line)
             THEN LET parts == RowParts(line)
                      height_frac == IF Len(parts) >= 1 THEN ParseFloat(parts[1]) ELSE None
                  IN  IF height_frac # None /\ InUnitRange(height_frac[1])
                      THEN TowerLoopSkipping(lines, i + 1, in_table,
                                             Append(stations, [heightFraction |-> height_frac[1]]))
                      ELSE TowerLoopSkipping(lines, i + 1, in_table, stations)
             ELSE TowerLoopSkipping(lines, i + 1, in_table, stations)

\* the loop of parse_tower_file from line i on: the stations at its end
RECURSIVE TowerLoop(_, _, _, _)
TowerLoop(lines, i, in_table, stations) ==
    IF i > Len(lines) THEN stations
    ELSE LET line == lines[i]
         IN  IF in_table /\ StartsWith(Strip(line), "---") THEN stations
             ELSE IF Contains(Upper(line), "HTFRACT")
             THEN TowerLoop(lines, i + 1, TRUE, stations)
             ELSE IF in_table /\ IsRow(line)
             THEN LET parts == RowParts(line)
                      height_frac == IF Len(parts) >= 1 THEN ParseFloat(parts[1]) ELSE None
                  IN  IF Len(parts) < 1 THEN TowerLoop(lines, i + 1, in_table, stations)
                      ELSE IF height_frac = None THEN stations
                      ELSE IF InUnitRange(height_frac[1])
                      THEN TowerLoop(lines, i + 1, in_table,
                                     Append(stations, [heightFraction |-> height_frac[1]]))
                      ELSE stations
             ELSE TowerLoop(lines, i + 1, in_table, stations)

\* parse_tower_file with the warnings list rebuilt, not appended to
parse_tower_file_resetting(g, content) ==
    LET stations == TowerLoop(SplitOn(content, "\n"), 1, FALSE, <<>>)
    IN  IF stations # <<>>
        THEN [g EXCEPT !.tower = Put(@, "stations", stations),
                       !.filesRead = Append(@, "Tower properties"),
                       !.warnings = <<FmtTowerCount(Len(stations))>>]
        ELSE g

\* self.parse_tower_file(content): the geometry it leaves
parse_tower_file(g, content) ==
    LET stations == TowerLoop(SplitOn(content, "\n"), 1, FALSE, <<>>)
    IN  IF stations # <<>>
        THEN [g EXCEPT !.tower = Put(@, "stations", stations),
                       !.filesRead = Append(@, "Tower properties"),
                       !.warnings = Append(@, FmtTowerCount(Len(stations)))]
        ELSE g

\* self.parse_aerodyn_file(content): the geometry it leaves
parse_aerodyn_file(g, content) == [g EXCEPT !.filesRead = Append(@, "AeroDyn")]

(***************************************************************************)
(* parse_elastodyn_file, one iteration of its while loop at a time         *)
(***************************************************************************)
\* the locals tower_ht, twr2shft, tower_bs_ht before the loop
NewLocals == [tower_ht |-> None, twr2shft |-> None, tower_bs_ht |-> None]

\* Resolve falling back on the first stored file when the name is not found
ResolveWithFallback(fs, f) ==
    IF TruthyStr(f)
    THEN (IF get_file(fs, f[1]) = None /\ fs # <<>> THEN Some(fs[1].content) ELSE get_file(fs, f[1]))
    ELSE None

\* the content a file reference resolves to: self.get_file(f) if f else None
Resolve(fs, f) == IF TruthyStr(f) THEN get_file(fs, f[1]) ELSE None

\* RotorDiameter without the doubling
RotorDiameterAsRadius(tip_rad) == tip_rad

\* tip_rad * 2
RotorDiameter(tip_rad) == tip_rad * 2

\* one iteration on the line raw: the geometry and the locals it leaves
ElastoDynLine(g, fs, loc, raw) ==
    LET line == Strip(raw)
        same == [geometry |-> g, loc |-> loc]
    IN  IF Contains(line, "NumBl")
        THEN [same EXCEPT !.geometry.config = Put(@, "numBlades", read_value(line, "int"))]
        ELSE IF Contains(line, "TipRad")
        THEN LET tip_rad == read_value(line, "float")
             IN  IF TruthyNum(tip_rad)
                 THEN [same EXCEPT !.geometry.config = Put(@, "rotorDiameter", Some(RotorDiameter(tip_rad[1]))),
                                   !.geometry.blades = Put(@, "length", tip_rad)]
                 ELSE same
        ELSE IF Contains(line, "HubRad")
        THEN [same EXCEPT !.geometry.hub = Put(@, "radius", read_value(line, "float"))]
        ELSE IF Contains(line, "PreCone")
        THEN [same EXCEPT !.geometry.blades = Put(@, "precone", read_value(line, "float"))]
        ELSE IF Contains(line, "OverHang")
        THEN [same EXCEPT !.geometry.hub = Put(@, "overhang", read_value(line, "float"))]
        ELSE IF Contains(line, "ShftTilt")
        THEN [same EXCEPT !.geometry.hub = Put(@, "shaftTilt", read_value(line, "float"))]
        ELSE IF Contains(line, "TowerHt") /\ ~Contains(line, "TowerBsHt")
        THEN LET tower_ht == read_value(line, "float")
             IN  IF TruthyNum(tower_ht)
                 THEN [same EXCEPT !.loc.tower_ht = tower_ht,
                                   !.geometry.tower = Put(@, "height", tower_ht)]
                 ELSE [same EXCEPT !.loc.tower_ht = tower_ht]
        ELSE IF Contains(line, "TowerBsHt")
        THEN LET tower_bs_ht == read_value(line, "float")
             IN  IF tower_bs_ht # None
                 THEN [same EXCEPT !.loc.tower_bs_ht = tower_bs_ht,
                                   !.geometry.tower = Put(@, "baseElevation", tower_bs_ht)]
                 ELSE [same EXCEPT !.loc.tower_bs_ht = tower_bs_ht]
        ELSE IF Contains(line, "Twr2Shft")
        THEN [same EXCEPT !.loc.twr2shft = read_value(line, "float")]
        ELSE IF Contains(line, "BldFile")
        THEN LET blade_content == Resolve(fs, read_value(line, "str"))
             IN  IF TruthyStr(blade_content)
                 THEN [same EXCEPT !.geometry = parse_blade_file(g, blade_content[1])]
                 ELSE same
        ELSE IF Contains(line, "TwrFile")
        THEN LET tower_content == Resolve(fs, read_value(line, "str"))
             IN  IF TruthyStr(tower_content)
                 THEN [same EXCEPT !.geometry = parse_tower_file(g, tower_content[1])]
                 ELSE same
        ELSE same

\* f"Hub height calculated: {hub_height}m (TowerHt={tower_ht} + Twr2Shft={twr2shft or 0})"
FmtHubHeight(hub_height, tower_ht, twr2shft) ==
    "Hub height calculated: " \o FmtFloat(hub_height) \o "m (TowerHt=" \o FmtFloat(tower_ht)
        \o " + Twr2Shft=" \o (IF TruthyNum(twr2shft) THEN FmtFloat(twr2shft[1]) ELSE "0") \o ")"

\* HubHeight with the offset left out
HubHeightWithoutOffset(tower_ht, twr2shft) == tower_ht

\* hub_height = tower_ht, plus twr2shft when it is not None
HubHeight(tower_ht, twr2shft) == tower_ht + (IF twr2shft # None THEN twr2shft[1] ELSE 0)

\* ElastoDynEnd with the label put at the front of filesRead
ElastoDynEndLabelFirst(g, loc) ==
    LET g1 == IF loc.tower_ht # None
              THEN LET hub_height == HubHeight(loc.tower_ht[1], loc.twr2shft)
                   IN  [g EXCEPT !.config = Put(@, "hubHeight", Some(hub_height)),
                                 !.warnings = Append(@, FmtHubHeight(hub_height, loc.tower_ht[1], loc.twr2shft))]
              ELSE g
    IN  [g1 EXCEPT !.filesRead = <<"ElastoDyn">> \o @]

\* what follows the loop: the hub height, its message, the label
ElastoDynEnd(g, loc) ==
    LET g1 == IF loc.tower_ht # None
              THEN LET hub_height == HubHeight(loc.tower_ht[1], loc.twr2shft)
                   IN  [g EXCEPT !.config = Put(@, "hubHeight", Some(hub_height)),
                                 !.warnings = Append(@, FmtHubHeight(hub_height, loc.tower_ht[1], loc.twr2shft))]
              ELSE g
    IN  [g1 EXCEPT !.filesRead = Append(@, "ElastoDyn")]

(***************************************************************************)
(* parse_main_file, one iteration of its for loop at a time                *)
(***************************************************************************)
FmtEDFileNotFound(ed_file) == "EDFile '" \o ed_file \o "' not found"
NoElastoDynWarning == "No ElastoDyn file reference found or file not uploaded"
NoFstError == "No .fst file found"

\* one iteration on line: the geometry and the flags it leaves, and the content
\* of the ElastoDyn file it calls parse_elastodyn_file on (None: no call)
MainLine(g, fs, found_ed, found_aero, line) ==
    LET line_stripped == Strip(line)
        same == [geometry |-> g, found_ed |-> found_ed, found_aero |-> found_aero, call |-> None]
    IN  IF line_stripped = "" \/ StartsWith(line_stripped, "!") \/ StartsWith(line_stripped, "---")
        THEN same
        ELSE IF Contains(line, "EDFile") \/ Contains(line, "ElastoDyn input file")
        THEN LET ed_file == read_value(line, "str")
                 ed_content == Resolve(fs, ed_file)
             IN  IF TruthyStr(ed_content)
                 THEN [same EXCEPT !.found_ed = TRUE, !.call = ed_content]
                 ELSE IF TruthyStr(ed_file)
                 THEN [same EXCEPT !.geometry.warnings = Append(@, FmtEDFileNotFound(ed_file[1]))]
                 ELSE same
        ELSE IF Contains(line, "AeroFile") \/ Contains(line, "AeroDyn input file")
        THEN LET aero_content == Resolve(fs, read_value(line, "str"))
             IN  IF TruthyStr(aero_content)
                 THEN [same EXCEPT !.found_aero = TRUE,
                                   !.geometry = parse_aerodyn_file(g, aero_content[1])]
                 ELSE same
        ELSE same

\* what follows the loop: the warning when no ElastoDyn file was parsed, the label
MainEnd(g, found_ed) ==
    LET g1 == IF ~found_ed THEN [g EXCEPT !.warnings = Append(@, NoElastoDynWarning)] ELSE g
    IN  [g1 EXCEPT !.filesRead = Append(@, "main.fst")]

(***************************************************************************)
(* extract_geometry                                                        *)
(***************************************************************************)
\* main_file after the loop over self.files.items(): the content of the first
\* item whose name ends with ".fst", or None
FindMainFile(fs) ==
    LET I == {i \in 1..Len(fs) : EndsWith(fs[i].name, ".fst")}
    IN  IF I = {} THEN None ELSE Some(fs[SetMin(I)].content)

\* "if not main_file": None or the empty string
NotMainFile(main_file) == ~TruthyStr(main_file)

\* NoMainResult reporting success
NoMainResultSucceeds(g) == [success |-> TRUE, geometry |-> [g EXCEPT !.errors = Append(@, NoFstError)]]

\* the record returned when there is no main file
NoMainResult(g) == [success |-> FALSE, geometry |-> [g EXCEPT !.errors = Append(@, NoFstError)]]

\* the record returned after parse_main_file returned success
ParsedResult(success, g) == [success |-> success /\ Len(g.errors) = 0, geometry |-> g]

(***************************************************************************)
(* The call stack                                                          *)
(***************************************************************************)
Top == stack[Len(stack)]
Running(fn) == stack # <<>> /\ Top.fn = fn
Pop == SubSeq(stack, 1, Len(stack) - 1)

MainFrame(content) ==
    [fn |-> "parse_main_file", lines |-> SplitOn(content, "\n"), i |-> 1,
     found_ed |-> FALSE, found_aero |-> FALSE]
ElastoDynFrame(content) ==
    [fn |-> "parse_elastodyn_file", lines |-> SplitOn(content, "\n"), i |-> 1, loc |-> NewLocals]

(***************************************************************************)
(* Actions                                                                 *)
(***************************************************************************)
\* extract_openfast_geometry up to its call of extract_geometry
ExtractOpenfastGeometry ==
    /\ stack = <<>>
    /\ phase <= Len(plan)
    /\ LET extractor == GeometryExtractorInit([geometry |-> geometry, files |-> files])
       IN  /\ geometry' = extractor.geometry
           /\ files' = add_files(extractor.files, plan[phase])
    /\ stack' = <<[fn |-> "extract_geometry"]>>
    /\ UNCHANGED <<rv, probe, phase, plan, history>>

\* extract_geometry up to its return without a main file, or its call of parse_main_file
ExtractGeometry ==
    /\ Running("extract_geometry")
    /\ LET main_file == FindMainFile(files)
       IN  IF NotMainFile(main_file)
           THEN /\ geometry' = NoMainResult(geometry).geometry
                /\ history' = Append(history, NoMainResult(geometry))
                /\ stack' = <<>>
                /\ phase' = phase + 1
           ELSE /\ stack' = <<[fn |-> "extract_geometry_return"], MainFrame(main_file[1])>>
                /\ UNCHANGED <<geometry, history, phase>>
    /\ UNCHANGED <<files, rv, probe, plan>>

ParseMainLine ==
    /\ Running("parse_main_file")
    /\ Top.i <= Len(Top.lines)
    /\ LET r == MainLine(geometry, files, Top.found_ed, Top.found_aero, Top.lines[Top.i])
           f == [Top EXCEPT !.i = @ + 1, !.found_ed = r.found_ed, !.found_aero = r.found_aero]
       IN  /\ geometry' = r.geometry
           /\ stack' = IF r.call # None
                       THEN Pop \o <<f, ElastoDynFrame(r.call[1])>>
                       ELSE Pop \o <<f>>
    /\ UNCHANGED <<files, rv, probe, phase, plan, history>>

ParseMainEnd ==
    /\ Running("parse_main_file")
    /\ Top.i > Len(Top.lines)
    /\ geometry' = MainEnd(geometry, Top.found_ed)
    /\ rv' = TRUE
    /\ stack' = Pop
    /\ UNCHANGED <<files, probe, phase, plan, history>>

ParseElastodynLine ==
    /\ Running("parse_elastodyn_file")
    /\ Top.i <= Len(Top.lines)
    /\ LET r == ElastoDynLine(geometry, files, Top.loc, Top.lines[Top.i])
       IN  /\ geometry' = r.geometry
           /\ stack' = Pop \o <<[Top EXCEPT !.i = @ + 1, !.loc = r.loc]>>
    /\ UNCHANGED <<files, rv, probe, phase, plan, history>>

ParseElastodynEnd ==
    /\ Running("parse_elastodyn_file")
    /\ Top.i > Len(Top.lines)
    /\ geometry' = ElastoDynEnd(geometry, Top.loc)
    /\ rv' = TRUE
    /\ stack' = Pop
    /\ UNCHANGED <<files, probe, phase, plan, history>>

\* extract_geometry from the return of parse_main_file to its own
ExtractGeometryReturn ==
    /\ Running("extract_geometry_return")
    /\ history' = Append(history, ParsedResult(rv, geometry))
    /\ stack' = <<>>
    /\ phase' = phase + 1
    /\ UNCHANGED <<files, geometry, rv, probe, plan>>

\* a direct call of get_file on the populated store
CallGetFile ==
    /\ probe.fn = "get_file"
    /\ ~probe.done
    /\ probe' = [probe EXCEPT !.done = TRUE, !.out = get_file(files, probe.filepath)]
    /\ UNCHANGED <<files, geometry, stack, rv, phase, plan, history>>

\* a direct call of read_value
CallReadValue ==
    /\ probe.fn = "read_value"
    /\ ~probe.done
    /\ probe' = [probe EXCEPT !.done = TRUE, !.out = read_value(probe.line, probe.value_type)]
    /\ UNCHANGED <<files, geometry, stack, rv, phase, plan, history>>

\* a direct call of parse_blade_file on a new extractor
CallParseBladeFile ==
    /\ probe.fn = "parse_blade_file"
    /\ ~probe.done
    /\ geometry' = parse_blade_file(geometry, probe.content)
    /\ rv' = TRUE
    /\ probe' = [probe EXCEPT !.done = TRUE]
    /\ UNCHANGED <<files, stack, phase, plan, history>>

\* a direct call of parse_tower_file on a new extractor
CallParseTowerFile ==
    /\ probe.fn = "parse_tower_file"
    /\ ~probe.done
    /\ geometry' = parse_tower_file(geometry, probe.content)
    /\ rv' = TRUE
    /\ probe' = [probe EXCEPT !.done = TRUE]
    /\ UNCHANGED <<files, stack, phase, plan, history>>

(***************************************************************************)
(* Inputs                                                                  *)
(***************************************************************************)
MaxMainLines == 2
MaxEdLines == 2
MaxTblRows == 3
MaxStoreFiles == 3

SeqsUpTo(S, n) == UNION {[1..k -> S] : k \in 0..n}

\* "\n".join(lines)
RECURSIVE Join(_)
Join(lines) ==
    IF lines = <<>> THEN ""
    ELSE IF Len(lines) = 1 THEN lines[1]
    ELSE lines[1] \o "\n" \o Join(Tail(lines))

Texts(cat, n) == {Join(ls) : ls \in SeqsUpTo(cat, n)}
Item(n, c) == [name |-> n, content |-> c]

\* lines of a main file
MainCat ==
    {"\"ed.dat\" EDFile - ElastoDyn input file",
     "\"gone.dat\" EDFile",
     "EDFile \"ed.dat\"",
     "\"aero.dat\" AeroFile - AeroDyn input file",
     "! EDFile is set below",
     "False Echo - Echo input data"}

\* lines of an ElastoDyn file
EdCat ==
    {"3 NumBl ! 3 blades",
     "NumBl 3 ! 3 blades",
     "50.0 TipRad -",
     "TipRad 50.0 -",
     "60.0 TipRad",
     "0.0 TipRad",
     "1.5 HubRad",
     "2.5 PreCone",
     "5.0 OverHang",
     "5.0 ShftTilt",
     "80.0 TowerHt",
     "0.0 TowerHt",
     "--- TowerHt ---",
     "10.0 TowerBsHt",
     "5.0 Twr2Shft",
     "0.0 Twr2Shft",
     "\"bld.dat\" BldFile",
     "\"twr.dat\" TwrFile",
     "\"gone.dat\" BldFile",
     "\"gone.dat\" TwrFile"}

\* lines of a blade file and of a tower file, and how such a file may begin
BladeCat ==
    {"BlFract PitchAxis StrcTwst",
     "0.0 0.0 5.0",
     "x y z",
     "1.0 0.0 -2.0",
     "0.5 0.2",
     "0.5 0.2 3.0 ! BlFract 0.5",
     "! comment",
     "--- end"}
BladeHeads ==
    {<<>>,
     <<"BlFract PitchAxis StrcTwst">>,
     <<"BlFract PitchAxis StrcTwst", "">>,
     <<"0.0 0.0 5.0", "  blfract  pitchaxis">>}
TowerCat ==
    {"HtFract TMassDen",
     "0.0",
     "0.5",
     "1.5",
     "-0.5",
     " 1.0 200.0 ! top",
     "x 0.1",
     "--- end",
     "! comment"}
TowerHeads ==
    {<<>>,
     <<"HtFract TMassDen">>,
     <<"HtFract TMassDen", "">>,
     <<"0.0", "--- table", "  htfract  tmassden">>}

\* the files that begin with one of heads and go on with up to n lines of cat
TableTexts(heads, cat, n) == {Join(h \o r) : h \in heads, r \in SeqsUpTo(cat, n)}

BladeSample == "BlFract PitchAxis StrcTwst\n0.0 0.0 5.0\nx y z\n1.0 0.0 -2.0"
TowerSample == "HtFract TMassDen\n0.0\n0.5\n1.5"
ElastoDynSample ==
    "3 NumBl - Number of blades\n50.0 TipRad -\n80.0 TowerHt\n5.0 Twr2Shft\n\"bld.dat\" BldFile\n\"twr.dat\" TwrFile"

TableItems == <<Item("bld.dat", BladeSample), Item("twr.dat", TowerSample)>>

\* the other files uploaded with a main file
Supports ==
    {<<>>,
     <<Item("ed.dat", ElastoDynSample), Item("aero.dat", "AeroDyn")>> \o TableItems,
     <<Item("aero.dat", "AeroDyn"), Item("ed.dat", "80.0 TowerHt")>>,
     <<Item("ed.dat", "")>>,
     <<Item("aero.dat", "AeroDyn")>>}

\* the files_dict of one invocation: no main file, the main file first or last,
\* or after an empty .fst file
FileDicts ==
    Supports
    \cup {<<Item("main.fst", m)>> \o s : m \in Texts(MainCat, MaxMainLines), s \in Supports}
    \cup {s \o <<Item("main.fst", m)>> : m \in Texts(MainCat, MaxMainLines), s \in Supports}
    \cup {<<Item("old.fst", ""), Item("main.fst", m)>> : m \in Texts(MainCat, 1)}

NoProbe == [fn |-> "none"]

(***************************************************************************)
(* Spec: one invocation of extract_openfast_geometry                       *)
(***************************************************************************)
Init ==
    /\ files = <<>>
    /\ geometry = NewGeometry
    /\ stack = <<>>
    /\ rv = FALSE
    /\ probe = NoProbe
    /\ phase = 1
    /\ plan \in {<<d>> : d \in FileDicts}
    /\ history = <<>>

Next ==
    \/ ExtractOpenfastGeometry
    \/ ExtractGeometry
    \/ ParseMainLine
    \/ ParseMainEnd
    \/ ParseElastodynLine
    \/ ParseElastodynEnd
    \/ ExtractGeometryReturn

Spec == Init /\ [][Next]_vars

(***************************************************************************)
(* SpecED: parse_elastodyn_file called on a new extractor holding the      *)
(* table files                                                             *)
(***************************************************************************)
InitED ==
    /\ files = add_files(<<>>, TableItems)
    /\ geometry = NewGeometry
    /\ \E c \in Texts(EdCat, MaxEdLines) :
          /\ stack = <<ElastoDynFrame(c)>>
          /\ probe = [fn |-> "parse_elastodyn_file", content |-> c]
    /\ rv = FALSE
    /\ phase = 1
    /\ plan = <<>>
    /\ history = <<>>

NextED == ParseElastodynLine \/ ParseElastodynEnd

SpecED == InitED /\ [][NextED]_vars

(***************************************************************************)
(* SpecBlade, SpecTower: parse_blade_file, parse_tower_file called on a    *)
(* new extractor                                                           *)
(***************************************************************************)
InitBlade ==
    /\ files = <<>>
    /\ geometry = NewGeometry
    /\ stack = <<>>
    /\ rv = FALSE
    /\ \E c \in TableTexts(BladeHeads, BladeCat, MaxTblRows) :
          probe = [fn |-> "parse_blade_file", content |-> c, done |-> FALSE]
    /\ phase = 1
    /\ plan = <<>>
    /\ history = <<>>

NextBlade == CallParseBladeFile

SpecBlade == InitBlade /\ [][NextBlade]_vars

InitTower ==
    /\ files = <<>>
    /\ geometry = NewGeometry
    /\ stack = <<>>
    /\ rv = FALSE
    /\ \E c \in TableTexts(TowerHeads, TowerCat, MaxTblRows) :
          probe = [fn |-> "parse_tower_file", content |-> c, done |-> FALSE]
    /\ phase = 1
    /\ plan = <<>>
    /\ history = <<>>

NextTower == CallParseTowerFile

SpecTower == InitTower /\ [][NextTower]_vars

(***************************************************************************)
(* SpecCall: get_file called on a populated store, read_value on a line    *)
(***************************************************************************)
StoreNames == {"Blade1.dat", "data/Blade1.dat", "old/Blade1.dat", "ed.dat", "sub/ed.dat"}
AskedNames == StoreNames \cup {"new/Blade1.dat", "none.dat"}

\* the uploads: up to MaxStoreFiles files of different names, in any order
Uploads ==
    {u \in SeqsUpTo(StoreNames, MaxStoreFiles) : \A i, j \in 1..Len(u) : u[i] = u[j] => i = j}
UploadItems(u) == [i \in 1..Len(u) |-> Item(u[i], IF u[i] = "ed.dat" THEN "" ELSE "text of " \o u[i])]

ReadCat ==
    {"NumBl 3 ! 3 blades", "3 NumBl ! 3 blades", "50.0 TipRad -", "TipRad 50.0 -",
     "-5.0 PreCone", "-5.0", "5.0", "'twr.dat' TwrFile", "\"bld.dat\" BldFile", "True Echo - echo",
     "t", "! comment", "--- section ---", "", "  1 2  "}
ValueTypes == {"str", "int", "float", "bool"}

InitCall ==
    /\ geometry = NewGeometry
    /\ stack = <<>>
    /\ rv = FALSE
    /\ \/ \E u \in Uploads, n \in AskedNames :
             /\ files = add_files(<<>>, UploadItems(u))
             /\ probe = [fn |-> "get_file", filepath |-> n, done |-> FALSE, out |-> None,
                         before |-> add_files(<<>>, UploadItems(u))]
       \/ \E l \in ReadCat, t \in ValueTypes :
             /\ files = <<>>
             /\ probe = [fn |-> "read_value", line |-> l, value_type |-> t,
                         done |-> FALSE, out |-> None]
    /\ phase = 1
    /\ plan = <<>>
    /\ history = <<>>

NextCall == CallGetFile \/ CallReadValue

SpecCall == InitCall /\ [][NextCall]_vars

(***************************************************************************)
(* SpecTwice: three invocations in a row, on the file sets B, A, B         *)
(***************************************************************************)
TwiceDicts ==
    {<<Item("main.fst", "\"ed.dat\" EDFile\n\"aero.dat\" AeroFile"),
       Item("ed.dat", ElastoDynSample), Item("aero.dat", "AeroDyn")>> \o TableItems,
     <<Item("turbine.fst", "\"e2.dat\" EDFile"), Item("e2.dat", "NumBl 3\n0.0 TowerHt")>>,
     <<Item("main.fst", "\"gone.dat\" EDFile")>>,
     <<Item("main.fst", "")>>,
     <<Item("ed.dat", ElastoDynSample)>>,
     <<>>}

InitTwice ==
    /\ files = <<>>
    /\ geometry = NewGeometry
    /\ stack = <<>>
    /\ rv = FALSE
    /\ probe = NoProbe
    /\ phase = 1
    /\ plan \in {<<b, a, b>> : a \in TwiceDicts, b \in TwiceDicts}
    /\ history = <<>>

SpecTwice == InitTwice /\ [][Next]_vars

(***************************************************************************)
(* SpecStations: parse_elastodyn_file called on a new extractor holding    *)
(* table files of two, one and no stations                                 *)
(***************************************************************************)
MaxRefLines == 3

StationItems ==
    <<Item("bld.dat", "BlFract\n0 0 5\n1 0 2"),
      Item("b1.dat", "BlFract\n0.5 0.2 3"),
      Item("hdr.dat", "BlFract\nx y z"),
      Item("twr.dat", "HtFract\n0\n0.5"),
      Item("t1.dat", "HtFract\n1"),
      Item("bad.dat", "HtFract\n1.5\n0.5")>>

\* lines of an ElastoDyn file that refer to them
StationCat ==
    {"\"bld.dat\" BldFile",
     "\"b1.dat\" BldFile",
     "\"hdr.dat\" BldFile",
     "\"twr.dat\" TwrFile",
     "\"t1.dat\" TwrFile",
     "\"bad.dat\" TwrFile"}

InitStations ==
    /\ files = add_files(<<>>, StationItems)
    /\ geometry = NewGeometry
    /\ \E c \in Texts(StationCat, MaxRefLines) :
          /\ stack = <<ElastoDynFrame(c)>>
          /\ probe = [fn |-> "parse_elastodyn_file", content |-> c]
    /\ rv = FALSE
    /\ phase = 1
    /\ plan = <<>>
    /\ history = <<>>

SpecStations == InitStations /\ [][NextED]_vars

(***************************************************************************)
(* Properties of one invocation (Spec)                                     *)
(***************************************************************************)
Range(q) == {q[i] : i \in 1..Len(q)}
HasFst(fs) == \E i \in 1..Len(fs) : EndsWith(fs[i].name, ".fst")
FirstFst(fs) == fs[SetMin({i \in 1..Len(fs) : EndsWith(fs[i].name, ".fst")})]

\* extract_geometry has chosen between its two paths
MainFileDecided == history # <<>> \/ (stack # <<>> /\ stack[1].fn = "extract_geometry_return")
\* parse_main_file was called
MainParserInvoked ==
    \/ stack # <<>> /\ stack[1].fn = "extract_geometry_return"
    \/ "main.fst" \in Range(geometry.filesRead)

\* a line of the main file that is read as an ElastoDyn reference
IsEdReference(line) ==
    /\ Strip(line) # ""
    /\ ~StartsWith(Strip(line), "!")
    /\ ~StartsWith(Strip(line), "---")
    /\ Contains(line, "EDFile") \/ Contains(line, "ElastoDyn input file")

\* no line of the stored main file names a structural file that the store resolves
NoStructuralReference ==
    \A line \in Range(SplitOn(FirstFst(files).content, "\n")) :
        IsEdReference(line) => Resolve(files, read_value(line, "str")) = None

\* C1: a run whose stored main file has no line that yields a resolved structural
\* file returns errors empty, the "No ElastoDyn file reference" warning among the
\* warnings, and success true.
NoReferenceStillSucceeds ==
    (history # <<>> /\ HasFst(files) /\ NoStructuralReference)
        => /\ history[1].geometry.errors = <<>>
           /\ NoElastoDynWarning \in Range(history[1].geometry.warnings)
           /\ history[1].success

\* C8: the "No .fst file found" error is appended, and parse_main_file is not
\* called, exactly when no stored name ends with ".fst"; otherwise parse_main_file
\* runs on the first such file in store order.
MainFileSelection ==
    MainFileDecided
        => /\ (NoFstError \in Range(geometry.errors)) <=> ~HasFst(files)
           /\ MainParserInvoked <=> HasFst(files)
           /\ \A k \in 1..Len(stack) :
                 stack[k].fn = "parse_main_file"
                     => stack[k].lines = SplitOn(FirstFst(files).content, "\n")

\* C9: in every returned record, success is true exactly when errors is empty,
\* whatever the warnings hold.
SuccessIffNoErrors ==
    \A i \in 1..Len(history) : history[i].success <=> (history[i].geometry.errors = <<>>)

SuccessIffNoErrorsWitness ==
    /\ history # <<>>
    /\ ~history[1].success
    /\ history[1].geometry.errors # <<>>

(***************************************************************************)
(* Properties of parse_elastodyn_file (SpecED)                             *)
(***************************************************************************)
EdLines == SplitOn(probe.content, "\n")
EdDone == stack = <<>>
\* how many lines the loop has processed
EdSeen == IF stack = <<>> THEN Len(EdLines) ELSE Top.i - 1

\* the keywords in the order the loop tests them, and the one a line is taken for
KeywordOrder ==
    <<"NumBl", "TipRad", "HubRad", "PreCone", "OverHang", "ShftTilt",
      "TowerHt", "TowerBsHt", "Twr2Shft", "BldFile", "TwrFile">>
HasKeyword(line, k) ==
    IF k = "TowerHt" THEN Contains(line, "TowerHt") /\ ~Contains(line, "TowerBsHt")
    ELSE Contains(line, k)
KeywordOf(line) ==
    LET I == {k \in 1..Len(KeywordOrder) : HasKeyword(Strip(line), KeywordOrder[k])}
    IN  IF I = {} THEN "" ELSE KeywordOrder[SetMin(I)]
\* the last of the first n lines taken for keyword kw (0: none)
LastOf(lines, kw, n) ==
    LET J == {j \in 1..n : KeywordOf(lines[j]) = kw}
    IN  IF J = {} THEN 0 ELSE SetMax(J)
\* the value read from that line, None when there is none
LastRead(lines, kw, n, value_type) ==
    LET j == LastOf(lines, kw, n)
    IN  IF j = 0 THEN None ELSE read_value(lines[j], value_type)

IsNumeral(t) == t # "" /\ \A i \in 1..Len(t) : IsDigit(Ch(t, i)) \/ Ch(t, i) = "."
\* the tokens are "<number> <Keyword> ..." or "<Keyword> <number> ..."
ValueFirst(t, kw) == Len(t) >= 2 /\ IsNumeral(t[1]) /\ t[2] = kw
KeywordFirst(t, kw) == Len(t) >= 2 /\ t[1] = kw /\ IsNumeral(t[2])

\* C2 as stated: after the keyword-first line "NumBl 3 ! 3 blades" numBlades is 3,
\* and after "TipRad 50.0 -" rotorDiameter is 100.0 and blades.length is 50.0.
KeywordFirstLinesRead ==
    EdSeen >= 1 =>
        LET line == EdLines[EdSeen]
        IN  /\ line = "NumBl 3 ! 3 blades"
                 => Has(geometry.config, "numBlades") /\ geometry.config["numBlades"] = Some(3)
            /\ line = "TipRad 50.0 -"
                 => /\ Has(geometry.config, "rotorDiameter")
                    /\ geometry.config["rotorDiameter"] = Some(1000)
                    /\ Has(geometry.blades, "length")
                    /\ geometry.blades["length"] = Some(500)

\* C2 amended: the reader returns the number of a value-first line,
\* "<number> <Keyword> <comment>": right after "3 NumBl ! 3 blades" numBlades is 3
\* and right after "50.0 TipRad -" rotorDiameter is 100.0 and blades.length is
\* 50.0.  On a keyword-first line it returns None: numBlades is written as None,
\* and a TipRad line writes neither field.
ValueFirstLinesRead ==
    EdSeen >= 1 =>
        LET lines == EdLines
            line == lines[EdSeen]
            t == Tokens(line)
            number == ParseFloat(t[1])
        IN  /\ ValueFirst(t, "NumBl")
                 => /\ Has(geometry.config, "numBlades")
                    /\ geometry.config["numBlades"] = ParseInt(t[1])
            /\ line = "3 NumBl ! 3 blades" => geometry.config["numBlades"] = Some(3)
            /\ (ValueFirst(t, "TipRad") /\ number \notin {None, Some(0)})
                 => /\ Has(geometry.config, "rotorDiameter") /\ Has(geometry.blades, "length")
                    /\ geometry.config["rotorDiameter"] = Some(2 * number[1])
                    /\ geometry.blades["length"] = number
            /\ line = "50.0 TipRad -"
                 => /\ geometry.config["rotorDiameter"] = Some(1000)
                    /\ geometry.blades["length"] = Some(500)
            /\ KeywordFirst(t, "NumBl")
                 => Has(geometry.config, "numBlades") /\ geometry.config["numBlades"] = None
            /\ (KeywordFirst(t, "TipRad") /\ LastOf(lines, "TipRad", EdSeen - 1) = 0)
                 => ~Has(geometry.config, "rotorDiameter") /\ ~Has(geometry.blades, "length")

ValueFirstLinesReadWitness ==
    /\ EdSeen >= 1
    /\ EdLines[EdSeen] = "50.0 TipRad -"
    /\ Has(geometry.config, "rotorDiameter")
    /\ geometry.config["rotorDiameter"] = Some(1000)

HubMessages == {i \in 1..Len(geometry.warnings) : StartsWith(geometry.warnings[i], "Hub height calculated")}
OffsetTerm(o) == IF o = None \/ o = Some(0) THEN "0" ELSE FmtFloat(o[1])

\* C3: after a parse whose last tower-height line gave the value h, hubHeight is
\* h plus the value o of the last tower-to-shaft line (h alone when that gave
\* none), and exactly one hub-height warning was appended, citing h and the offset
\* (0 when absent); when no tower-height value was captured hubHeight is not
\* written and there is no such warning.
HubHeightDerived ==
    EdDone =>
        LET lines == EdLines
            h == LastRead(lines, "TowerHt", Len(lines), "float")
            o == LastRead(lines, "Twr2Shft", Len(lines), "float")
        IN  IF h # None
            THEN /\ Has(geometry.config, "hubHeight")
                 /\ geometry.config["hubHeight"] = Some(h[1] + (IF o = None THEN 0 ELSE o[1]))
                 /\ Cardinality(HubMessages) = 1
                 /\ \A i \in HubMessages :
                       Contains(geometry.warnings[i],
                                "(TowerHt=" \o FmtFloat(h[1]) \o " + Twr2Shft=" \o OffsetTerm(o) \o ")")
            ELSE /\ ~Has(geometry.config, "hubHeight")
                 /\ HubMessages = {}

HubHeightDerivedWitness ==
    /\ EdDone
    /\ probe.content = "80.0 TowerHt\n5.0 Twr2Shft"
    /\ Has(geometry.config, "hubHeight")
    /\ geometry.config["hubHeight"] = Some(850)
    /\ geometry.warnings = <<"Hub height calculated: 85.0m (TowerHt=80.0 + Twr2Shft=5.0)">>

\* the optional scalar fields: where each is stored, its keyword, how it is read,
\* and the factor between the value read and the value stored
ScalarFields ==
    {<<"config", "numBlades", "NumBl", "int", 1>>,
     <<"config", "rotorDiameter", "TipRad", "float", 2>>,
     <<"blades", "length", "TipRad", "float", 1>>,
     <<"blades", "precone", "PreCone", "float", 1>>,
     <<"hub", "radius", "HubRad", "float", 1>>,
     <<"hub", "overhang", "OverHang", "float", 1>>,
     <<"hub", "shaftTilt", "ShftTilt", "float", 1>>,
     <<"tower", "height", "TowerHt", "float", 1>>,
     <<"tower", "baseElevation", "TowerBsHt", "float", 1>>}
Times(v, m) == IF v = None THEN None ELSE Some(v[1] * m)

\* C10: at every point of a structural parse each optional scalar field is either
\* absent or holds the value read from the last line so far that matched its
\* keyword, and it never holds None.
OptionalScalarsHoldLastRead ==
    \A f \in ScalarFields :
        Has(geometry[f[1]], f[2])
            => /\ geometry[f[1]][f[2]] # None
               /\ geometry[f[1]][f[2]] = Times(LastRead(EdLines, f[3], EdSeen, f[4]), f[5])

(***************************************************************************)
(* Properties of the table parsers (SpecBlade, SpecTower)                  *)
(***************************************************************************)
TblLines == SplitOn(probe.content, "\n")
\* the stations the call stored ("if stations:" stores none when there are none)
Produced(part) == IF Has(geometry[part], "stations") THEN geometry[part]["stations"] ELSE <<>>
IsHeader(line, token) == Contains(Upper(line), token)
\* the indices after the first header line of lines
AfterHeader(lines, token) ==
    LET H == {i \in 1..Len(lines) : IsHeader(lines[i], token)}
    IN  IF H = {} THEN {} ELSE (SetMin(H) + 1)..Len(lines)

\* the members of a set of indices in increasing order
RECURSIVE Ascending(_)
Ascending(I) == IF I = {} THEN <<>> ELSE <<SetMin(I)>> \o Ascending(I \ {SetMin(I)})

\* the first three tokens of the line, after its "!" comment is cut, are numbers
ThreeNumbers(line) ==
    LET parts == RowParts(line)
    IN  Len(parts) >= 3 /\ \A k \in 1..3 : ParseFloat(parts[k]) # None
BladeStationOf(line) ==
    LET parts == RowParts(line)
    IN  [spanFraction |-> ParseFloat(parts[1])[1], pitchAxis |-> ParseFloat(parts[2])[1],
         twist |-> ParseFloat(parts[3])[1]]
BladeStationsAt(lines, I) ==
    LET order == Ascending(I) IN [k \in 1..Len(order) |-> BladeStationOf(lines[order[k]])]

BladeRowsAsStated(lines) ==
    {i \in AfterHeader(lines, "BLFRACT") : IsRow(lines[i]) /\ ThreeNumbers(lines[i])}
BladeRows(lines) ==
    {i \in AfterHeader(lines, "BLFRACT") :
        ~IsHeader(lines[i], "BLFRACT") /\ IsRow(lines[i]) /\ ThreeNumbers(lines[i])}

\* C4 as stated: the blade stations are, in file order, the lines after the first
\* header line that are not blank, do not start with "!" or "---", and whose first
\* three tokens (after the "!" comment is cut) all parse as numbers.
BladeTableAsStated ==
    probe.done =>
        LET lines == TblLines
        IN  Produced("blades") = BladeStationsAt(lines, BladeRowsAsStated(lines))

\* C4 amended: the same, over the lines that do not themselves contain the header
\* token BLFRACT (in any letter case): such a line is always taken for a header.
\* A malformed row is skipped and the rows after it are still recorded.
BladeTableSkipsBadRows ==
    probe.done =>
        LET lines == TblLines
        IN  Produced("blades") = BladeStationsAt(lines, BladeRows(lines))

BladeTableSkipsBadRowsWitness ==
    /\ probe.done
    /\ probe.content = "BlFract PitchAxis StrcTwst\n0.0 0.0 5.0\nx y z\n1.0 0.0 -2.0"
    /\ Len(Produced("blades")) = 2
    /\ Produced("blades")[2].twist = 0 - 20

\* the first token of the row is no number, or a number outside [0, 1]
BadTowerRow(line) ==
    LET height_frac == ParseFloat(RowParts(line)[1])
    IN  height_frac = None \/ ~InUnitRange(height_frac[1])
TowerStationsAt(lines, I) ==
    LET order == Ascending(I)
    IN  [k \in 1..Len(order) |-> [heightFraction |-> ParseFloat(RowParts(lines[order[k]])[1])[1]]]
\* the warnings of a call that produced n stations
CountWarning(n) == IF n = 0 THEN <<>> ELSE <<"Parsed " \o ToString(n) \o " tower stations">>

TowerRowsAsStated(lines) ==
    LET T == AfterHeader(lines, "HTFRACT")
        E == {i \in T : \/ StartsWith(Strip(lines[i]), "---")
                        \/ IsRow(lines[i]) /\ BadTowerRow(lines[i])}
    IN  {i \in T : (\A e \in E : i < e) /\ IsRow(lines[i])}

TowerRows(lines) ==
    LET T == AfterHeader(lines, "HTFRACT")
        E == {i \in T : \/ StartsWith(Strip(lines[i]), "---")
                        \/ /\ ~IsHeader(lines[i], "HTFRACT")
                           /\ IsRow(lines[i])
                           /\ BadTowerRow(lines[i])}
    IN  {i \in T : (\A e \in E : i < e) /\ IsRow(lines[i]) /\ ~IsHeader(lines[i], "HTFRACT")}

\* C5 as stated: the tower stations are the data rows after the header up to, and
\* not including, the first line of the table that starts with "---", or whose
\* first token is no number, or whose value is outside [0, 1]; the count warning
\* reports their number.
TowerTableAsStated ==
    probe.done =>
        LET rows == TowerRowsAsStated(TblLines)
        IN  /\ Produced("tower") = TowerStationsAt(TblLines, rows)
            /\ geometry.warnings = CountWarning(Cardinality(rows))

\* C5 amended: the same, except that a line of the table that contains the header
\* token HTFRACT (in any letter case) and does not start with "---" is passed
\* over: it is neither recorded nor does it end the table.  No row after the
\* ending line is recorded, and the count warning, appended when there is at
\* least one station, reports their number.
TowerTableStopsAtBadRow ==
    probe.done =>
        LET lines == TblLines
            rows == TowerRows(lines)
        IN  /\ Produced("tower") = TowerStationsAt(lines, rows)
            /\ geometry.warnings = CountWarning(Cardinality(rows))

TowerTableStopsAtBadRowWitness ==
    /\ probe.done
    /\ probe.content = "HtFract TMassDen\n0.0\n0.5\n1.5"
    /\ Produced("tower") = <<[heightFraction |-> 0], [heightFraction |-> 5]>>
    /\ geometry.warnings = <<"Parsed 2 tower stations">>

(***************************************************************************)
(* Properties of get_file (SpecCall)                                       *)
(***************************************************************************)
\* the final path segment of a name
FinalSegment(name) == LET segs == SplitOn(name, "/") IN segs[Len(segs)]

\* C6: get_file(name) returns the content stored under the key name if there is
\* one; otherwise the content stored under the key equal to the final path
\* segment of name if there is one; otherwise the content of the first stored key,
\* in insertion order, whose final path segment equals that of name; it returns
\* None exactly when none of the three applies, and it leaves the store as it was.
GetFileFollowsRules ==
    (probe.fn = "get_file" /\ probe.done) =>
        LET name == probe.filepath
            exact == {i \in 1..Len(files) : files[i].name = name}
            based == {i \in 1..Len(files) : files[i].name = FinalSegment(name)}
            alike == {i \in 1..Len(files) : FinalSegment(files[i].name) = FinalSegment(name)}
        IN  /\ files = probe.before
            /\ probe.out =
                 (IF exact # {} THEN Some(files[SetMin(exact)].content)
                  ELSE IF based # {} THEN Some(files[SetMin(based)].content)
                  ELSE IF alike # {} THEN Some(files[SetMin(alike)].content)
                  ELSE None)
            /\ (probe.out = None) <=> (exact \cup based \cup alike = {})

GetFileFollowsRulesWitness ==
    /\ probe.fn = "get_file"
    /\ probe.done
    /\ probe.filepath = "data/Blade1.dat"
    /\ Keys(files) = {"Blade1.dat"}
    /\ probe.out = Some("text of Blade1.dat")

(***************************************************************************)
(* Properties of successive invocations (SpecTwice)                        *)
(***************************************************************************)
Names(items) == {items[i].name : i \in 1..Len(items)}

\* C7: an invocation returns the same record whether it runs first or after
\* other invocations: invocations given the same file set return equal records
\* (the third, after a run on A, as the first, alone), and while an invocation
\* runs the store holds the files of its own file set and no other.
InvocationsDoNotInterfere ==
    /\ \A i, j \in 1..Len(history) : plan[i] = plan[j] => history[i] = history[j]
    /\ stack # <<>> => files = add_files(<<>>, plan[phase])

InvocationsDoNotInterfereWitness ==
    /\ Len(history) = 3
    /\ Names(plan[1]) \cap Names(plan[2]) = {}
    /\ history[1].geometry.filesRead # <<>>
    /\ history[2].geometry.errors # <<>>
    /\ history[3] = history[1]

(***************************************************************************)
(* Properties of the diagnostics of one invocation (Spec)                  *)
(***************************************************************************)
IsPrefix(a, b) == Len(a) <= Len(b) /\ SubSeq(b, 1, Len(a)) = a

\* C11: errors, warnings and filesRead are append-only during one run: across
\* every step of every parser the value of each before the step is a prefix of
\* its value after the step.
DiagnosticsAppendOnly ==
    [][/\ IsPrefix(geometry.errors, geometry'.errors)
       /\ IsPrefix(geometry.warnings, geometry'.warnings)
       /\ IsPrefix(geometry.filesRead, geometry'.filesRead)]_vars

DiagnosticsAppendOnlyWitness ==
    /\ history # <<>>
    /\ geometry.filesRead = <<"Blade properties", "Tower properties", "ElastoDyn", "AeroDyn", "main.fst">>
    /\ Len(geometry.warnings) = 3
    /\ geometry.errors = <<>>

(***************************************************************************)
(* Properties of the reference lines of the main file (Spec)               *)
(***************************************************************************)
\* a line of the main file that is read as an AeroDyn reference
IsAeroReference(line) ==
    /\ Strip(line) # ""
    /\ ~StartsWith(Strip(line), "!")
    /\ ~StartsWith(Strip(line), "---")
    /\ ~(Contains(line, "EDFile") \/ Contains(line, "ElastoDyn input file"))
    /\ Contains(line, "AeroFile") \/ Contains(line, "AeroDyn input file")

\* C12: on a structural-reference line, and likewise on an aerodynamic-reference
\* line, of the main file: when a file name is read from the line and the store
\* does not resolve it, the step appends a warning naming the file; when the
\* store resolves it, the step dispatches the parser of that kind; and a main
\* file without any aerodynamic reference gets no warning about one.
ReferenceHandlingSymmetric ==
    [][(Running("parse_main_file") /\ Top.i <= Len(Top.lines)) =>
          LET line == Top.lines[Top.i]
              name == read_value(line, "str")
              after == geometry'.warnings
          IN  /\ ((IsEdReference(line) \/ IsAeroReference(line)) /\ TruthyStr(name)) =>
                    IF get_file(files, name[1]) = None
                    THEN /\ Len(after) = Len(geometry.warnings) + 1
                         /\ Contains(after[Len(after)], name[1])
                    ELSE IF IsEdReference(line)
                    THEN stack'[Len(stack')].fn = "parse_elastodyn_file"
                    ELSE geometry'.filesRead = Append(geometry.filesRead, "AeroDyn")
              /\ (\A l \in Range(Top.lines) : ~IsAeroReference(l)) =>
                    \A w \in Range(after) : ~Contains(w, "Aero")]_vars

(***************************************************************************)
(* Properties of the stored tower stations (SpecTower)                     *)
(***************************************************************************)
\* C13: every station in tower.stations has its heightFraction within [0, 1]
\* inclusive (0 to 10 tenths): a row whose value is outside is never recorded.
TowerStationsInUnitRange ==
    \A k \in 1..Len(Produced("tower")) :
        /\ 0 <= Produced("tower")[k].heightFraction
        /\ Produced("tower")[k].heightFraction <= 10

TowerStationsInUnitRangeWitness ==
    /\ probe.done
    /\ probe.content = "HtFract TMassDen\n 1.0 200.0 ! top\n0.0\n1.5"
    /\ Produced("tower") = <<[heightFraction |-> 10], [heightFraction |-> 0]>>

(***************************************************************************)
(* Properties of the derived fields of parse_elastodyn_file (SpecED)       *)
(***************************************************************************)
\* C14: at every point of a structural parse config.rotorDiameter is present
\* exactly when blades.length is, and then it is twice blades.length.
RotorDiameterTwiceLength ==
    /\ Has(geometry.config, "rotorDiameter") <=> Has(geometry.blades, "length")
    /\ Has(geometry.config, "rotorDiameter") =>
          /\ geometry.blades["length"] # None
          /\ geometry.config["rotorDiameter"] = Some(2 * geometry.blades["length"][1])

RotorDiameterTwiceLengthWitness ==
    /\ EdSeen = 2
    /\ probe.content = "50.0 TipRad -\n60.0 TipRad"
    /\ geometry.config["rotorDiameter"] = Some(1200)
    /\ geometry.blades["length"] = Some(600)

\* C15: processing a blade-table or tower-table reference line whose file the
\* store does not resolve leaves every field of the result, with errors,
\* warnings and filesRead, unchanged, and the scan goes on with the next line.
UnresolvedTableReferenceSkipped ==
    [][(Running("parse_elastodyn_file") /\ Top.i <= Len(Top.lines)) =>
          LET line == Top.lines[Top.i]
              name == read_value(line, "str")
          IN  (/\ KeywordOf(line) \in {"BldFile", "TwrFile"}
               /\ (name = None \/ get_file(files, name[1]) = None))
                  => /\ geometry' = geometry
                     /\ stack' = Pop \o <<[Top EXCEPT !.i = @ + 1]>>]_vars

UnresolvedTableReferenceSkippedWitness ==
    /\ EdSeen = 2
    /\ stack # <<>>
    /\ probe.content = "\"bld.dat\" BldFile\n\"gone.dat\" TwrFile"
    /\ get_file(files, "gone.dat") = None
    /\ geometry.filesRead = <<"Blade properties">>
    /\ geometry.warnings = <<"Parsed 2 blade stations">>
    /\ ~Has(geometry.tower, "stations")

(***************************************************************************)
(* Properties of read_value (SpecCall)                                     *)
(***************************************************************************)
\* the line begins, after leading whitespace, with a negative number
ValuedNegative(line) ==
    LET t == Tokens(line)
    IN  /\ t # <<>>
        /\ StartsWith(t[1], "-")
        /\ ParseFloat(t[1]) # None

\* C16 as stated: reading a line valued -5.0 with float coercion yields the value
\* with its sign lost, 5.0.
NegativeValueLosesSign ==
    (probe.fn = "read_value" /\ probe.done /\ probe.value_type = "float"
        /\ ValuedNegative(probe.line) /\ Tokens(probe.line)[1] = "-5.0")
        => probe.out = Some(50)

\* C16 amended: reading a line valued with a negative number yields None,
\* whatever the coercion: the line is cut at its first "!" or "-", here its
\* first character, and nothing is left to read.  It yields neither the signed
\* value nor the value with its sign lost.
NegativeValueReadsAbsent ==
    (probe.fn = "read_value" /\ probe.done /\ ValuedNegative(probe.line))
        => probe.out = None

NegativeValueReadsAbsentWitness ==
    /\ probe.fn = "read_value"
    /\ probe.done
    /\ probe.line = "-5.0 PreCone"
    /\ probe.value_type = "float"
    /\ probe.out = None

(***************************************************************************)
(* Properties of the order of filesRead (Spec)                             *)
(***************************************************************************)
Positions(q, label) == {i \in 1..Len(q) : q[i] = label}
TableLabels == {"Blade properties", "Tower properties"}

\* C17: in a run that parsed the main file, "main.fst" occurs once in filesRead
\* and is its last element, so every "ElastoDyn" label stands before it; a
\* "Blade properties" or "Tower properties" label stands before the "ElastoDyn"
\* label of the structural parse that appended it: the labels between it and the
\* next "ElastoDyn" label are table labels only.  While the main file is being
\* parsed its label is not yet there, and while a structural parse runs no
\* "ElastoDyn" label follows a table label it appended.
FilesReadOrdered ==
    LET q == geometry.filesRead
        closes(i, j) == i < j /\ q[j] = "ElastoDyn" /\ \A k \in (i + 1)..(j - 1) : q[k] \in TableLabels
        parsing == \E k \in 1..Len(stack) : stack[k].fn = "parse_main_file"
    IN  /\ (MainParserInvoked /\ ~parsing) =>
              /\ Positions(q, "main.fst") = {Len(q)}
              /\ \A j \in Positions(q, "ElastoDyn") : j < Len(q)
              /\ \A i \in 1..Len(q) : q[i] \in TableLabels => \E j \in 1..Len(q) : closes(i, j)
        /\ parsing => Positions(q, "main.fst") = {}
        /\ Running("parse_elastodyn_file") =>
              \A i \in 1..Len(q) :
                  q[i] \in TableLabels =>
                      \/ \E j \in 1..Len(q) : closes(i, j)
                      \/ \A k \in i..Len(q) : q[k] \in TableLabels

FilesReadOrderedWitness ==
    /\ history # <<>>
    /\ geometry.filesRead =
          <<"Blade properties", "Tower properties", "ElastoDyn",
            "Blade properties", "Tower properties", "ElastoDyn", "main.fst">>

(***************************************************************************)
(* Properties of the hub height against the tower height (SpecED)          *)
(***************************************************************************)
\* C18: after a structural parse config.hubHeight is present exactly when
\* tower.height is, and then hubHeight is tower.height plus the captured
\* tower-to-shaft offset (0 when there is none).
HubHeightMatchesTowerHeight ==
    EdDone =>
        LET o == LastRead(EdLines, "Twr2Shft", Len(EdLines), "float")
        IN  /\ Has(geometry.config, "hubHeight") <=> Has(geometry.tower, "height")
            /\ (Has(geometry.config, "hubHeight") /\ Has(geometry.tower, "height")) =>
                  geometry.config["hubHeight"]
                      = Some(geometry.tower["height"][1] + (IF o = None THEN 0 ELSE o[1]))

(***************************************************************************)
(* Properties of the stored station lists (SpecStations)                   *)
(***************************************************************************)
\* the stations of the table file that a reference line of the given kind
\* resolves to (none when it resolves to no file, or is of another kind)
TableOutput(line, kw) ==
    IF KeywordOf(line) # kw THEN <<>>
    ELSE LET content == Resolve(files, read_value(line, "str"))
         IN  IF ~TruthyStr(content) THEN <<>>
             ELSE IF kw = "BldFile" THEN BladeLoop(SplitOn(content[1], "\n"), 1, FALSE, <<>>)
             ELSE TowerLoop(SplitOn(content[1], "\n"), 1, FALSE, <<>>)

\* the entries of q, in order, that satisfy the test
Select(q, Test(_)) ==
    LET order == Ascending({i \in 1..Len(q) : Test(q[i])})
    IN  [k \in 1..Len(order) |-> q[order[k]]]

\* the stations field of a part of the result, None when it is absent
StationsField(g, part) == IF Has(g[part], "stations") THEN Some(g[part]["stations"]) ELSE None

\* the field is present only with a station in it, and there are as many labels
\* as count warnings of the kind, none when the field is absent
StationsCounted(part, label, unit) ==
    LET IsLabel(x) == x = label
        IsCount(x) == StartsWith(x, "Parsed ") /\ EndsWith(x, unit)
        labels == Len(Select(geometry.filesRead, IsLabel))
    IN  /\ StationsField(geometry, part) # Some(<<>>)
        /\ labels = Len(Select(geometry.warnings, IsCount))
        /\ (labels > 0) <=> Has(geometry[part], "stations")

\* a step that parses a table of the kind with at least one station stores its
\* output and appends one label and one count warning; a step that parses one
\* with no station changes nothing in the result; any other step leaves the
\* field as it was
StationsStep(part, kw, label, unit) ==
    LET inLoop == Running("parse_elastodyn_file") /\ Top.i <= Len(Top.lines)
        out == IF inLoop THEN TableOutput(Top.lines[Top.i], kw) ELSE <<>>
    IN  IF out # <<>>
        THEN /\ StationsField(geometry', part) = Some(out)
             /\ geometry'.filesRead = Append(geometry.filesRead, label)
             /\ geometry'.warnings = Append(geometry.warnings, "Parsed " \o ToString(Len(out)) \o unit)
        ELSE /\ StationsField(geometry', part) = StationsField(geometry, part)
             /\ (inLoop /\ KeywordOf(Top.lines[Top.i]) = kw) => geometry' = geometry

\* C19: whenever blades.stations (tower.stations) is present it is a non-empty
\* list, the output of the most recent blade (tower) table parse that produced
\* a station; a parse that produces none leaves the field, filesRead and
\* warnings as they were, so there are as many "Blade properties" ("Tower
\* properties") labels as station-count warnings of that kind.
StationListsPresentNonEmpty ==
    /\ [](/\ StationsCounted("blades", "Blade properties", " blade stations")
          /\ StationsCounted("tower", "Tower properties", " tower stations"))
    /\ [][/\ StationsStep("blades", "BldFile", "Blade properties", " blade stations")
          /\ StationsStep("tower", "TwrFile", "Tower properties", " tower stations")]_vars

StationListsPresentNonEmptyWitness ==
    /\ EdSeen = 3
    /\ probe.content = "\"bld.dat\" BldFile\n\"b1.dat\" BldFile\n\"hdr.dat\" BldFile"
    /\ geometry.blades["stations"] = <<[spanFraction |-> 5, pitchAxis |-> 2, twist |-> 30]>>
    /\ geometry.filesRead = <<"Blade properties", "Blade properties">>
    /\ geometry.warnings = <<"Parsed 2 blade stations", "Parsed 1 blade stations">>

====
